---- MODULE Spec2Model ----
(***************************************************************************)
(* Model of scripts/manage_prs.py: the PR management agent (PRManager and  *)
(* main).  One run lists the open pull requests, and for each one either   *)
(* merges it and deletes its head branch, or creates conflicts/<head>,     *)
(* detects the conflicting files with the local git tool, comments on the  *)
(* PR and records the outcome.  Every hosting-service call and every local *)
(* tool call is one step; the calls made are kept in the history `calls`.  *)
(***************************************************************************)
EXTENDS Integers, Sequences, FiniteSets, TLC

\* ------------------------------------------------------------------ bounds

\* The longest listing the hosting service returns.
MaxPRs == 2

\* How many times run() is called on one manager.
MaxRuns == 2

PRNumbers == 1..MaxPRs
Titles == {"Fix"}
\* The (head, base) pairs of the PRs a listing can hold: a PR into main, a PR
\* from a conflicts/ branch, and a PR stacked on the head of another.
BranchPairs ==
  {<<"feature", "main">>, <<"conflicts/feature", "main">>, <<"conflicts/feature", "feature">>}
HeadBranches == {bp[1] : bp \in BranchPairs}
BaseBranches == {bp[2] : bp \in BranchPairs}

\* ------------------------------------------------------- values and helpers

\* Python's None, where a string is expected.
None == "None"
\* A ref the hosting service does not have.
Absent == "absent"

\* How one hosting-service call can end: a 2xx response, a non-2xx response
\* (raise_for_status raises requests.exceptions.HTTPError), or any other
\* exception of the call (requests.ConnectionError, a KeyError on a payload
\* that lacks a field).
Outcomes == {"ok", "http_error", "other_error"}

\* The mergeable field of the PR payload: true, false, or null (not computed).
MergeableValues == {"true", "false", "null"}

\* Mutant: `if can_merge is not False:`, which takes null for mergeable.
TruthyUnlessFalse(m) == m # "false"

\* Python truthiness of pr_data.get("mergeable"), as `if can_merge:` reads it.
Truthy(m) == m = "true"

PullRequests ==
  {[number |-> n, title |-> t, head |-> bp[1], base |-> bp[2]] :
     n \in PRNumbers, t \in Titles, bp \in BranchPairs}

SeqsUpTo(S, n) == UNION {[1..k -> S] : k \in 0..n}

\* What GET /pulls can return: PRs with unique numbers, in any order, each
\* carrying the four fields process_pr reads.  Two PRs can have the same head
\* branch name (PRs into different bases, or from forks).
Listings ==
  {l \in SeqsUpTo(PullRequests, MaxPRs) :
     \A i, j \in 1..Len(l) : i # j => l[i].number # l[j].number}

\* Mutant: f"conflicts-{source_branch}"
ConflictsBranchNameFlat(source_branch) == "conflicts-" \o source_branch

\* conflicts_branch_name = f"conflicts/{source_branch}"
ConflictsBranchName(source_branch) == "conflicts/" \o source_branch

AllRefs ==
  HeadBranches \cup BaseBranches \cup {ConflictsBranchName(h) : h \in HeadBranches}

InitialSha(branch) == "sha-" \o branch

\* The branches the hosting service holds when the given PRs are open: the
\* head and the base of each of them.
InitialRefs(listing) ==
  [r \in AllRefs |->
     IF \E i \in 1..Len(listing) : r \in {listing[i].head, listing[i].base}
     THEN InitialSha(r) ELSE Absent]

VARIABLES
  args,                 \* main(): the --repo argument and the token it is started with
  pc,                   \* the position of the process
  exit_code,            \* the status the process exited with, -1 while it runs
  open_prs,             \* hosting service: the open PRs, as GET /pulls lists them
  refs,                 \* hosting service: ref name -> sha, or Absent
  prs,                  \* run(): the listing fetched
  default_branch,       \* run(): the default branch fetched, None before
  idx,                  \* run(): position in prs of the PR being processed
  successfully_merged,  \* PRManager.successfully_merged
  moved_to_conflicts,   \* PRManager.moved_to_conflicts
  can_merge,            \* process_pr: the mergeable value read
  source_sha,           \* create_conflicts_branch: the sha read
  conflicting_files,    \* _handle_merge_conflict: the detector's result
  calls,                \* history: every API and local tool call, in order
  detections,           \* history: every call of get_conflicting_files
  summaries,            \* history: what print_summary printed, once per call
  ended_runs            \* history: the runs that ended before the one under way

vars ==
  <<args, ended_runs, default_branch, pc, exit_code, open_prs, refs, prs, idx,
    successfully_merged, moved_to_conflicts, can_merge, source_sha, conflicting_files,
    calls, detections, summaries>>

\* One call of the history: the operation, the position in prs and the number
\* of the PR it was made for (0 and 0 for a call of run() itself), its
\* arguments, and how it ended.
Call(op, pos, num, arg, res) ==
  [op |-> op, pos |-> pos, num |-> num, arg |-> arg, res |-> res]

\* The outcomes a hosting service holding the refs `held` can give a call on
\* a ref: it cannot read or delete a ref it does not have, nor create one it
\* has.
RefOutcomes(held, op, ref) ==
  IF op = "create_ref"
  THEN IF held[ref] = Absent THEN Outcomes ELSE Outcomes \ {"ok"}
  ELSE IF held[ref] = Absent THEN Outcomes \ {"ok"} ELSE Outcomes

RefCallOutcomes(op, ref) == RefOutcomes(refs, op, ref)

\* ------------------------------------------------- the Conflict Detector

Chars(s) == {SubSeq(s, i, i) : i \in 1..Len(s)}

\* The character class [a-zA-Z0-9/_.-] of branch_pattern.
AllowedChars ==
  Chars("abcdefghijklmnopqrstuvwxyz") \cup Chars("ABCDEFGHIJKLMNOPQRSTUVWXYZ")
    \cup Chars("0123456789") \cup {"/", "_", ".", "-"}

Whitespace == {" ", "\t", "\n", "\r"}

\* re.compile(r'^[a-zA-Z0-9/_.-]+$').match(name): one or more allowed
\* characters up to the end of the string, where Python's $ also matches
\* just before a newline that ends the string.
BranchPatternMatch(name) ==
  LET n == Len(name)
      core == IF n > 0 /\ SubSeq(name, n, n) = "\n" THEN SubSeq(name, 1, n - 1) ELSE name
  IN  /\ Len(core) > 0
      /\ \A i \in 1..Len(core) : SubSeq(core, i, i) \in AllowedChars

\* str.startswith
StartsWith(s, prefix) ==
  Len(s) >= Len(prefix) /\ SubSeq(s, 1, Len(prefix)) = prefix

RECURSIVE SplitFrom(_, _, _, _)
\* str.split() with no argument: the maximal runs of non-whitespace
\* characters of s, in order.  i is the next character, cur the run so far.
SplitFrom(s, i, cur, acc) ==
  IF i > Len(s)
  THEN IF cur = "" THEN acc ELSE Append(acc, cur)
  ELSE LET c == SubSeq(s, i, i)
       IN  IF c \in Whitespace
           THEN SplitFrom(s, i + 1, "", IF cur = "" THEN acc ELSE Append(acc, cur))
           ELSE SplitFrom(s, i + 1, cur \o c, acc)

Split(s) == SplitFrom(s, 1, "", <<>>)

RECURSIVE LStrip(_)
LStrip(s) ==
  IF Len(s) > 0 /\ SubSeq(s, 1, 1) \in Whitespace THEN LStrip(SubSeq(s, 2, Len(s))) ELSE s

RECURSIVE RStrip(_)
RStrip(s) ==
  IF Len(s) > 0 /\ SubSeq(s, Len(s), Len(s)) \in Whitespace
  THEN RStrip(SubSeq(s, 1, Len(s) - 1)) ELSE s

\* str.strip()
Strip(s) == RStrip(LStrip(s))

RECURSIVE ParseMergeTree(_, _)
\* The loop over result.stdout.split('\n'): a line that starts with
\* 'changed in both' and splits into more than three parts gives its
\* fourth part.
ParseMergeTree(lines, conflicts) ==
  IF lines = <<>> THEN conflicts
  ELSE LET line == Head(lines)
           parts == Split(line)
       IN  ParseMergeTree(Tail(lines),
             IF StartsWith(line, "changed in both") /\ Len(parts) > 3
             THEN Append(conflicts, parts[4]) ELSE conflicts)

\* How the local git tool behaves in one detection: whether subprocess.run
\* raises (git cannot be launched), the return code and stdout of
\* `git merge-base`, and the same for `git merge-tree` (stdout as its lines,
\* <<>> for an empty stdout).
ToolRun(mb_raises, mb_rc, mb_out, mt_raises, mt_rc, mt_out) ==
  [mb_raises |-> mb_raises, mb_rc |-> mb_rc, mb_out |-> mb_out,
   mt_raises |-> mt_raises, mt_rc |-> mt_rc, mt_out |-> mt_out]

MergeBaseArgs(base_branch, head_branch) ==
  <<"origin/" \o base_branch, "origin/" \o head_branch>>

MergeTreeArgs(merge_base, base_branch, head_branch) ==
  <<merge_base, "origin/" \o base_branch, "origin/" \o head_branch>>

\* A return of get_conflicting_files: the list returned, the tool
\* invocations made (op, arguments, how it ended) and the warnings printed.
Returns(files, invoked, warnings) ==
  [files |-> files, invoked |-> invoked, warnings |-> warnings, escaped |-> FALSE]

\* Mutant: the handler prints the warning and raises again.
ExceptReraises(invoked) ==
  [files |-> <<>>, invoked |-> invoked,
   warnings |-> <<"Warning: Could not determine conflicting files">>, escaped |-> TRUE]

\* `except Exception as e:` around the whole body: the warning is printed
\* and [] returned, whatever subprocess.run raised.
ExceptHandler(invoked) ==
  Returns(<<>>, invoked, <<"Warning: Could not determine conflicting files">>)


\* Mutant: merge-tree is run whatever merge-base exited with.
GetConflictingFilesIgnoresExit(base_branch, head_branch, tool) ==
  LET mb == [op |-> "git_merge_base", arg |-> MergeBaseArgs(base_branch, head_branch)]
      merge_base == Strip(tool.mb_out)
      mt == [op |-> "git_merge_tree",
             arg |-> MergeTreeArgs(merge_base, base_branch, head_branch)]
      With(c, res) == [op |-> c.op, arg |-> c.arg, res |-> res]
  IN  IF ~BranchPatternMatch(base_branch) \/ ~BranchPatternMatch(head_branch)
      THEN Returns(<<>>, <<>>, <<"Warning: Invalid branch name format">>)
      ELSE IF tool.mb_raises
      THEN ExceptHandler(<<With(mb, "raised")>>)
      ELSE IF tool.mt_raises
      THEN ExceptHandler(<<With(mb, IF tool.mb_rc = 0 THEN "zero" ELSE "nonzero"),
                           With(mt, "raised")>>)
      ELSE Returns(IF tool.mt_rc = 0 /\ tool.mt_out # <<>>
                   THEN ParseMergeTree(tool.mt_out, <<>>) ELSE <<>>,
                   <<With(mb, IF tool.mb_rc = 0 THEN "zero" ELSE "nonzero"),
                     With(mt, IF tool.mt_rc = 0 THEN "zero" ELSE "nonzero")>>,
                   <<>>)

\* get_conflicting_files(base_branch, head_branch) against a tool that
\* behaves as `tool`.
GetConflictingFiles(base_branch, head_branch, tool) ==
  LET mb == [op |-> "git_merge_base", arg |-> MergeBaseArgs(base_branch, head_branch)]
      merge_base == Strip(tool.mb_out)
      mt == [op |-> "git_merge_tree",
             arg |-> MergeTreeArgs(merge_base, base_branch, head_branch)]
      With(c, res) == [op |-> c.op, arg |-> c.arg, res |-> res]
  IN  IF ~BranchPatternMatch(base_branch) \/ ~BranchPatternMatch(head_branch)
      THEN Returns(<<>>, <<>>, <<"Warning: Invalid branch name format">>)
      ELSE IF tool.mb_raises
      THEN ExceptHandler(<<With(mb, "raised")>>)
      ELSE IF tool.mb_rc # 0
      THEN Returns(<<>>, <<With(mb, "nonzero")>>, <<>>)
      ELSE IF tool.mt_raises
      THEN ExceptHandler(<<With(mb, "zero"), With(mt, "raised")>>)
      ELSE Returns(IF tool.mt_rc = 0 /\ tool.mt_out # <<>>
                   THEN ParseMergeTree(tool.mt_out, <<>>) ELSE <<>>,
                   <<With(mb, "zero"),
                     With(mt, IF tool.mt_rc = 0 THEN "zero" ELSE "nonzero")>>,
                   <<>>)

\* The tool behaviours a run is checked against: conflicts reported on
\* two paths, and no common ancestor (a ref is not fetched).
ToolRuns ==
  { ToolRun(FALSE, 0, "abc123\n", FALSE, 0,
            <<"changed in both src/a.py", "added in remote src/c.py",
              "changed in both src/b.py", "">>),
    ToolRun(FALSE, 1, "", FALSE, 0, <<>>) }

\* ------------------------------------------------------------ the process

\* What main() is started with: the --repo argument ("" when it is not
\* given) and the token after the GITHUB_TOKEN fallback ("" when neither is
\* set).
RepoArgs == {"", "penta-core", "sburdges-eng/penta-core"}
Tokens == {"", "ghp_token"}

\* Which run of the behaviour is under way: the first, unless runs ended
\* before it.
RunNumber == Len(ended_runs) + 1

\* The default branch the hosting service reports to a run: main to the
\* first, develop to one that follows it.
RepoDefaultBranch(run) == IF run = 1 THEN "main" ELSE "develop"

Init ==
  /\ args \in [repo : RepoArgs, token : Tokens]
  /\ ended_runs = <<>>
  /\ default_branch = None
  /\ pc = "main"
  /\ exit_code = -1
  /\ open_prs \in Listings
  /\ refs = InitialRefs(open_prs)
  /\ prs = <<>>
  /\ idx = 0
  /\ successfully_merged = <<>>
  /\ moved_to_conflicts = <<>>
  /\ can_merge = None
  /\ source_sha = None
  /\ conflicting_files = <<>>
  /\ calls = <<>>
  /\ detections = <<>>
  /\ summaries = <<>>

\* Mutant: the PR is taken to target the default branch of the repository.
prWithDefaultBase == [prs[idx] EXCEPT !.base = default_branch]

\* The PR process_pr is working on.
pr == prs[idx]

NoLocals ==
  /\ can_merge' = None
  /\ source_sha' = None
  /\ conflicting_files' = <<>>

\* sys.exit(status), or the end of main() with status 0.
Exit(status) ==
  /\ pc' = "exited"
  /\ exit_code' = status
  /\ NoLocals

\* Mutant: main()'s except block prints the error and returns, without
\* sys.exit(1).
RaiseExitsZero == Exit(0)

\* An exception nothing in PRManager catches: it leaves process_pr and run(),
\* and main()'s `except Exception` prints it and exits with status 1.
Raise == Exit(1)

\* process_pr returns: the for loop of run() takes the next PR, or ends and
\* print_summary follows.
NextPR ==
  /\ idx' = idx + 1
  /\ pc' = IF idx < Len(prs) THEN "check_merge_status" ELSE "print_summary"
  /\ exit_code' = exit_code
  /\ NoLocals

\* Mutant: `if prs is None:`, which an empty list does not satisfy.
NoOpenPRsIsNone(listing) == FALSE

\* `if not prs:` in run().
NoOpenPRs(listing) == listing = <<>>

\* Mutant: `if can_merge is not False:`, written on the branch itself.
AfterCheckUnknownMerges(m) == IF m = "false" THEN "get_sha" ELSE "merge_pr"

\* process_pr after check_merge_status returned: `if can_merge:` goes on to
\* merge_pr, the else branch to _handle_merge_conflict.
AfterCheck(m) == IF Truthy(m) THEN "merge_pr" ELSE "get_sha"

\* Mutant: a merge that failed is tried again.
AfterMergeRetries(res) == IF res = "ok" THEN "delete_branch" ELSE "merge_pr"

\* Mutant: the result of merge_pr is not looked at.
AfterMergeUnchecked(res) == "delete_branch"


\* Mutant: the two branches of `if self.merge_pr(pr_number):` are exchanged.
AfterMergeInverted(res) == IF res = "ok" THEN "get_sha" ELSE "delete_branch"

\* process_pr after merge_pr returned: `if self.merge_pr(pr_number):` goes on
\* to delete_branch, the else branch to _handle_merge_conflict.
AfterMerge(res) == IF res = "ok" THEN "delete_branch" ELSE "get_sha"

\* Mutant: a failed deletion falls through to _handle_merge_conflict.
AfterDeleteFallsThrough(res) ==
  IF res = "ok" THEN NextPR
  ELSE /\ pc' = "get_sha"
       /\ UNCHANGED <<idx, exit_code, can_merge, source_sha, conflicting_files>>

\* process_pr after the merged record is appended: both branches of
\* `if self.delete_branch(head_branch):` end process_pr.
AfterDelete(res) == NextPR

\* Mutant: self.successfully_merged.insert(0, entry)
PrependMerged(entry) == successfully_merged' = <<entry>> \o successfully_merged

\* self.successfully_merged.append(entry)
AppendMerged(entry) == successfully_merged' = Append(successfully_merged, entry)

\* Mutant: self.moved_to_conflicts = [entry]
ReplaceConflicts(entry) == moved_to_conflicts' = <<entry>>


\* Mutant: the entry is appended twice.
AppendConflictTwice(entry) ==
  moved_to_conflicts' = moved_to_conflicts \o <<entry, entry>>

\* self.moved_to_conflicts.append(entry)
AppendConflict(entry) == moved_to_conflicts' = Append(moved_to_conflicts, entry)

MergedRecord(p) ==
  [pr_number |-> p.number, title |-> p.title, branch |-> p.head]

\* Mutant: the else branch appends the same record as the if branch.
MergedRecordNoteForgotten(p) ==
  [pr_number |-> p.number, title |-> p.title, branch |-> p.head]

MergedRecordDeleteFailed(p) ==
  [pr_number |-> p.number, title |-> p.title, branch |-> p.head,
   note |-> "Merged but branch deletion failed"]

\* Mutant: the merged record is appended only when the branch was deleted.
RecordMergedIfDeleted(p, res) ==
  IF res = "ok" THEN AppendMerged(MergedRecord(p)) ELSE UNCHANGED successfully_merged

\* process_pr after delete_branch returned: the merged record, with a note
\* when the deletion failed.
RecordMerged(p, res) ==
  AppendMerged(IF res = "ok" THEN MergedRecord(p) ELSE MergedRecordDeleteFailed(p))


\* Mutant: the record of a created conflicts branch carries a note too.
ConflictRecordWithNote(p, conflicts_branch, files) ==
  [pr_number |-> p.number, title |-> p.title, branch |-> p.head,
   conflicts_branch |-> conflicts_branch, conflicting_files |-> files,
   note |-> "Conflicts branch created"]

ConflictRecord(p, conflicts_branch, files) ==
  [pr_number |-> p.number, title |-> p.title, branch |-> p.head,
   conflicts_branch |-> conflicts_branch, conflicting_files |-> files]

\* Mutant: the record names the conflicts branch that could not be created.
ConflictRecordNamesBranch(p) ==
  [pr_number |-> p.number, title |-> p.title, branch |-> p.head,
   conflicts_branch |-> ConflictsBranchName(p.head),
   note |-> "Failed to create conflicts branch"]

ConflictRecordNoBranch(p) ==
  [pr_number |-> p.number, title |-> p.title, branch |-> p.head,
   conflicts_branch |-> None, note |-> "Failed to create conflicts branch"]

\* Mutant: the conflict record is appended only when the comment was posted.
RecordConflictIfCommented(p, conflicts_branch, files, res) ==
  IF res = "ok" THEN AppendConflict(ConflictRecord(p, conflicts_branch, files))
  ELSE UNCHANGED moved_to_conflicts

\* _handle_merge_conflict after comment_on_pr returned True or False: the
\* same conflict record is appended after either branch.
RecordConflict(p, conflicts_branch, files, res) ==
  AppendConflict(ConflictRecord(p, conflicts_branch, files))

\* The backquote of Markdown's inline code, written as an apostrophe here (a
\* TLA+ string cannot hold a backquote).
Tick == "'"

\* Mutant: the generic comment is composed whatever was detected.
CommentBodyGeneric(base_branch, conflicts_branch, files) ==
  <<"## Merge Conflicts Detected", "",
    "This PR cannot be automatically merged into " \o Tick \o base_branch \o Tick \o ".",
    "", "A conflicts branch has been created: " \o Tick \o conflicts_branch \o Tick,
    "", "Please resolve the conflicts and update this PR.">>

\* The comment _handle_merge_conflict composes, as its lines.
CommentBody(base_branch, conflicts_branch, files) ==
  LET tail == <<"", "A conflicts branch has been created: " \o Tick \o conflicts_branch \o Tick,
                "", "Please resolve the conflicts and update this PR.">>
  IN  IF files # <<>>
      THEN <<"## Merge Conflicts Detected", "",
             "This PR has merge conflicts with " \o Tick \o base_branch \o Tick \o ".", "",
             "**Conflicting files:**">>
             \o [i \in 1..Len(files) |-> "- " \o Tick \o files[i] \o Tick] \o tail
      ELSE <<"## Merge Conflicts Detected", "",
             "This PR cannot be automatically merged into " \o Tick \o base_branch \o Tick \o ".">>
             \o tail

\* Mutant: the token is not looked at.
TokenNeverMissing(token) == FALSE

\* `if not token:` in main().
TokenMissing(token) == token = ""

\* Mutant: run() begins with get_default_branch().
RunFirstCallDefaultBranch == "get_default_branch"

\* run(): the first statement that calls the hosting service is
\* `prs = self.get_open_prs()`.
RunFirstCall == "get_open_prs"

\* main(): parse the arguments (argparse ends the process with status 2 when
\* the required --repo is not given), require a token and an owner/repo,
\* construct the manager and start run().
Main ==
  /\ pc = "main"
  /\ IF args.repo = "" THEN Exit(2)
     ELSE IF TokenMissing(args.token) THEN Exit(1)
     ELSE IF "/" \notin Chars(args.repo) THEN Exit(1)
     ELSE /\ pc' = RunFirstCall
          /\ exit_code' = exit_code
          /\ NoLocals
  /\ successfully_merged' = <<>>
  /\ moved_to_conflicts' = <<>>
  /\ UNCHANGED <<args, ended_runs, default_branch,
                 open_prs, refs, prs, idx, calls, detections, summaries>>

\* run(): get_open_prs(); with no open PR, run() returns at once.
GetOpenPRs ==
  /\ pc = "get_open_prs"
  /\ \E res \in Outcomes :
       /\ calls' = Append(calls, Call("list_prs", 0, 0, <<>>, res))
       /\ IF res # "ok" THEN Raise /\ prs' = prs
          ELSE /\ prs' = open_prs
               /\ IF NoOpenPRs(open_prs) THEN Exit(0)
                  ELSE /\ pc' = "get_default_branch"
                       /\ exit_code' = exit_code
                       /\ NoLocals
  /\ UNCHANGED <<args, ended_runs, default_branch,
                 open_prs, refs, idx, successfully_merged, moved_to_conflicts,
                 detections, summaries>>


\* Mutant: a refused default-branch fetch is passed over and the loop begins.
GetDefaultBranchFailureIgnored ==
  /\ pc = "get_default_branch"
  /\ \E res \in Outcomes :
       /\ calls' = Append(calls, Call("get_repo", 0, 0, <<>>, res))
       /\ default_branch' = IF res = "ok" THEN RepoDefaultBranch(RunNumber) ELSE default_branch
       /\ IF res = "other_error" THEN Raise /\ idx' = idx
          ELSE /\ idx' = 1
               /\ pc' = "check_merge_status"
               /\ exit_code' = exit_code
               /\ NoLocals
  /\ UNCHANGED <<args, ended_runs,
                 open_prs, refs, prs, successfully_merged, moved_to_conflicts,
                 detections, summaries>>

\* run(): get_default_branch(), then the loop starts with the first PR.
GetDefaultBranch ==
  /\ pc = "get_default_branch"
  /\ \E res \in Outcomes :
       /\ calls' = Append(calls, Call("get_repo", 0, 0, <<>>, res))
       /\ default_branch' = IF res = "ok" THEN RepoDefaultBranch(RunNumber) ELSE default_branch
       /\ IF res # "ok" THEN Raise /\ idx' = idx
          ELSE /\ idx' = 1
               /\ pc' = "check_merge_status"
               /\ exit_code' = exit_code
               /\ NoLocals
  /\ UNCHANGED <<args, ended_runs,
                 open_prs, refs, prs, successfully_merged, moved_to_conflicts,
                 detections, summaries>>

\* process_pr: check_merge_status(pr_number), which has no try block, and
\* the branch on can_merge.
CheckMergeStatus ==
  /\ pc = "check_merge_status"
  /\ \E res \in MergeableValues \cup (Outcomes \ {"ok"}) :
       /\ calls' = Append(calls, Call("get_pr", idx, pr.number, <<>>, res))
       /\ IF res \notin MergeableValues THEN Raise
          ELSE /\ can_merge' = res
               /\ pc' = AfterCheck(res)
               /\ exit_code' = exit_code
               /\ UNCHANGED <<source_sha, conflicting_files>>
  /\ UNCHANGED <<args, ended_runs, default_branch,
                 open_prs, refs, prs, idx, successfully_merged, moved_to_conflicts,
                 detections, summaries>>

\* merge_pr(pr_number): True on success, False on an HTTPError, and then
\* process_pr goes on to delete_branch or to _handle_merge_conflict.
MergePR ==
  /\ pc = "merge_pr"
  /\ \E res \in Outcomes :
       /\ calls' = Append(calls, Call("merge", idx, pr.number, <<"merge">>, res))
       /\ open_prs' = IF res = "ok"
                      THEN SelectSeq(open_prs, LAMBDA p : p.number # pr.number)
                      ELSE open_prs
       /\ IF res = "other_error" THEN Raise
          ELSE /\ pc' = AfterMerge(res)
               /\ exit_code' = exit_code
               /\ UNCHANGED <<can_merge, source_sha, conflicting_files>>
  /\ UNCHANGED <<args, ended_runs, default_branch,
                 refs, prs, idx, successfully_merged, moved_to_conflicts, detections,
                 summaries>>

\* delete_branch(head_branch) after a merge, and the merged record appended
\* in either branch of `if self.delete_branch(head_branch)`.
DeleteBranch ==
  /\ pc = "delete_branch"
  /\ \E res \in RefCallOutcomes("delete_ref", pr.head) :
       /\ calls' = Append(calls, Call("delete_ref", idx, pr.number, <<pr.head>>, res))
       /\ refs' = IF res = "ok" THEN [refs EXCEPT ![pr.head] = Absent] ELSE refs
       /\ IF res = "other_error"
          THEN Raise /\ UNCHANGED <<idx, successfully_merged>>
          ELSE /\ RecordMerged(pr, res)
               /\ AfterDelete(res)
  /\ UNCHANGED <<args, ended_runs, default_branch,
                 open_prs, prs, moved_to_conflicts, detections, summaries>>

\* _handle_merge_conflict -> create_conflicts_branch: the GET of the head
\* branch's sha.  An HTTPError makes create_conflicts_branch return None, and
\* _handle_merge_conflict records the PR without a conflicts branch.
GetSha ==
  /\ pc = "get_sha"
  /\ \E res \in RefCallOutcomes("get_ref", pr.head) :
       /\ calls' = Append(calls, Call("get_ref", idx, pr.number, <<pr.head>>, res))
       /\ CASE res = "ok" ->
                 /\ source_sha' = refs[pr.head]
                 /\ pc' = "create_ref"
                 /\ UNCHANGED <<exit_code, idx, moved_to_conflicts, can_merge, conflicting_files>>
            [] res = "http_error" ->
                 /\ AppendConflict(ConflictRecordNoBranch(pr))
                 /\ NextPR
            [] OTHER -> Raise /\ UNCHANGED <<idx, moved_to_conflicts>>
  /\ UNCHANGED <<args, ended_runs, default_branch,
                 open_prs, refs, prs, successfully_merged, detections, summaries>>

\* Mutant: "ref": conflicts_branch_name, without refs/heads/.
CreateRefDataShortRef(conflicts_branch_name, sha) == <<conflicts_branch_name, sha>>

\* create_conflicts_branch: data = {"ref": ..., "sha": source_sha}
CreateRefData(conflicts_branch_name, sha) ==
  <<"refs/heads/" \o conflicts_branch_name, sha>>


\* Mutant: conflict handling goes on to the detector although the conflicts
\* branch could not be created.
CreateRefFailureIgnored ==
  /\ pc = "create_ref"
  /\ LET name == ConflictsBranchName(pr.head)
     IN  \E res \in RefCallOutcomes("create_ref", name) :
           /\ calls' = Append(calls, Call("create_ref", idx, pr.number,
                                          CreateRefData(name, source_sha), res))
           /\ refs' = IF res = "ok" THEN [refs EXCEPT ![name] = source_sha] ELSE refs
           /\ IF res \in {"ok", "http_error"}
              THEN /\ pc' = "get_conflicting_files"
                   /\ UNCHANGED <<exit_code, idx, moved_to_conflicts, can_merge,
                                  source_sha, conflicting_files>>
              ELSE Raise /\ UNCHANGED <<idx, moved_to_conflicts>>
  /\ UNCHANGED <<args, ended_runs, default_branch,
                 open_prs, prs, successfully_merged, detections, summaries>>

\* create_conflicts_branch: the POST of refs/heads/conflicts/<source_branch>
\* with the sha read.
CreateRef ==
  /\ pc = "create_ref"
  /\ LET name == ConflictsBranchName(pr.head)
     IN  \E res \in RefCallOutcomes("create_ref", name) :
           /\ calls' = Append(calls, Call("create_ref", idx, pr.number,
                                          CreateRefData(name, source_sha), res))
           /\ refs' = IF res = "ok" THEN [refs EXCEPT ![name] = source_sha] ELSE refs
           /\ CASE res = "ok" ->
                     /\ pc' = "get_conflicting_files"
                     /\ UNCHANGED <<exit_code, idx, moved_to_conflicts, can_merge,
                                    source_sha, conflicting_files>>
                [] res = "http_error" ->
                     /\ AppendConflict(ConflictRecordNoBranch(pr))
                     /\ NextPR
                [] OTHER -> Raise /\ UNCHANGED <<idx, moved_to_conflicts>>
  /\ UNCHANGED <<args, ended_runs, default_branch,
                 open_prs, prs, successfully_merged, detections, summaries>>

\* Mutant: the conflicting files are asked of the hosting service, with a
\* GET of /compare/<base>...<head>.
CompareApiCalls(invoked, pos, num) == <<Call("compare", pos, num, <<>>, "ok")>>

\* The calls get_conflicting_files makes: the subprocess.run invocations of
\* the local tool, and nothing else.
ToolCalls(invoked, pos, num) ==
  [i \in 1..Len(invoked) |->
     Call(invoked[i].op, pos, num, invoked[i].arg, invoked[i].res)]

\* One call of get_conflicting_files(pr.base, pr.head) against a tool of
\* `tools`; it assigns no attribute of the manager.
Detect(tools) ==
  /\ pc = "get_conflicting_files"
  /\ \E tool \in tools :
       LET d == GetConflictingFiles(pr.base, pr.head, tool)
       IN  /\ conflicting_files' = d.files
           /\ calls' = calls \o ToolCalls(d.invoked, idx, pr.number)
           /\ detections' = Append(detections,
                                   [pos |-> idx, base |-> pr.base, head |-> pr.head,
                                    tool |-> tool, files |-> d.files,
                                    invoked |-> d.invoked, warnings |-> d.warnings,
                                    escaped |-> d.escaped])
  /\ pc' = "comment_on_pr"
  /\ UNCHANGED <<args, ended_runs, default_branch,
                 exit_code, open_prs, refs, prs, idx, successfully_merged,
                 moved_to_conflicts, can_merge, source_sha, summaries>>

\* _handle_merge_conflict: get_conflicting_files(base_branch, head_branch),
\* which calls the local tool and never raises.
DetectConflicts == Detect(ToolRuns)

\* _handle_merge_conflict: comment_on_pr(pr_number, comment), and the
\* conflict record appended whether or not the comment was posted.
CommentOnPR ==
  /\ pc = "comment_on_pr"
  /\ LET conflicts_branch == ConflictsBranchName(pr.head)
     IN  \E res \in Outcomes :
           /\ calls' = Append(calls, Call("comment", idx, pr.number,
                                CommentBody(pr.base, conflicts_branch, conflicting_files),
                                res))
           /\ IF res = "other_error"
              THEN Raise /\ UNCHANGED <<idx, moved_to_conflicts>>
              ELSE /\ RecordConflict(pr, conflicts_branch, conflicting_files, res)
                   /\ NextPR
  /\ UNCHANGED <<args, ended_runs, default_branch,
                 open_prs, refs, prs, successfully_merged, detections, summaries>>

\* `if item.get(key):` for a key that holds a string or None.
HasString(item, key) == key \in DOMAIN item /\ item[key] \notin {None, ""}

\* `if item.get(key):` for a key that holds a list.
HasList(item, key) == key \in DOMAIN item /\ item[key] # <<>>

\* ', '.join(strings)
RECURSIVE JoinComma(_)
JoinComma(strings) ==
  IF strings = <<>> THEN ""
  ELSE IF Len(strings) = 1 THEN strings[1]
  ELSE strings[1] \o ", " \o JoinComma(Tail(strings))

\* '='*80
Bar == "================================================================================"

\* print_summary: the lines printed for one item of successfully_merged.
MergedItemLines(item) ==
  LET note == IF "note" \in DOMAIN item THEN " (" \o item.note \o ")" ELSE ""
  IN  <<"  - PR #" \o ToString(item.pr_number) \o ": " \o item.title,
        "    Branch: " \o item.branch \o note>>

\* print_summary: the lines printed for one item of moved_to_conflicts.
ConflictItemLines(item) ==
  <<"  - PR #" \o ToString(item.pr_number) \o ": " \o item.title,
    "    Original branch: " \o item.branch>>
  \o (IF HasString(item, "conflicts_branch")
      THEN <<"    Conflicts branch: " \o item.conflicts_branch>>
           \o (IF HasList(item, "conflicting_files")
               THEN <<"    Conflicting files: " \o JoinComma(item.conflicting_files)>>
               ELSE <<>>)
      ELSE <<>>)
  \o (IF "note" \in DOMAIN item THEN <<"    Note: " \o item.note>> ELSE <<>>)

\* The lines of every item of a list, in list order.
RECURSIVE ItemLines(_, _)
ItemLines(list, merged_list) ==
  IF list = <<>> THEN <<>>
  ELSE (IF merged_list THEN MergedItemLines(Head(list)) ELSE ConflictItemLines(Head(list)))
       \o ItemLines(Tail(list), merged_list)

\* Mutant: the summary stops after the merged PRs.
SummaryLinesMergedOnly(merged, conflicts) ==
  <<"", Bar, "SUMMARY", Bar, "">>
  \o (IF merged # <<>>
      THEN <<"Successfully merged and deleted:">> \o ItemLines(merged, TRUE)
      ELSE <<"Successfully merged and deleted: None">>)

\* print_summary(): what it prints, line by line.
SummaryLines(merged, conflicts) ==
  <<"", Bar, "SUMMARY", Bar, "">>
  \o (IF merged # <<>>
      THEN <<"Successfully merged and deleted:">> \o ItemLines(merged, TRUE)
      ELSE <<"Successfully merged and deleted: None">>)
  \o <<"">>
  \o (IF conflicts # <<>>
      THEN <<"Moved to conflicts branch:">> \o ItemLines(conflicts, FALSE)
      ELSE <<"Moved to conflicts branch: None">>)

\* run(): print_summary() after the loop; run() returns and main() ends.
PrintSummary ==
  /\ pc = "print_summary"
  /\ summaries' = Append(summaries,
                         [merged |-> successfully_merged,
                          conflicts |-> moved_to_conflicts,
                          lines |-> SummaryLines(successfully_merged, moved_to_conflicts)])
  /\ Exit(0)
  /\ UNCHANGED <<args, ended_runs, default_branch,
                 open_prs, refs, prs, idx, successfully_merged, moved_to_conflicts,
                 calls, detections>>

Next ==
  \/ Main
  \/ GetOpenPRs
  \/ GetDefaultBranch
  \/ CheckMergeStatus
  \/ MergePR
  \/ DeleteBranch
  \/ GetSha
  \/ CreateRef
  \/ DetectConflicts
  \/ CommentOnPR
  \/ PrintSummary

Spec == Init /\ [][Next]_vars

\* The process is sequential and nothing suspends it: as long as it has a
\* next step (a call that returns, a statement), it takes one.
FairSpec == Spec /\ WF_vars(Next)

\* --------------------------------------------- run() called more than once

\* What is kept of a run that has ended: how long the history of calls was,
\* how many detections it had made, the default branch it fetched and the
\* two lists it ended with.
EndedRun ==
  [calls |-> Len(calls), detections |-> Len(detections),
   default_branch |-> default_branch,
   merged |-> successfully_merged, conflicts |-> moved_to_conflicts]

\* run() is called again on the same PRManager, after a run() that returned
\* or raised: the locals of run() are new, and the attributes of the manager
\* and the hosting service are what the earlier run left; run() assigns
\* neither successfully_merged nor moved_to_conflicts before its first call.
RunAgain ==
  /\ pc = "exited"
  /\ calls # <<>>
  /\ RunNumber < MaxRuns
  /\ ended_runs' = Append(ended_runs, EndedRun)
  /\ pc' = RunFirstCall
  /\ exit_code' = -1
  /\ prs' = <<>>
  /\ idx' = 0
  /\ default_branch' = None
  /\ NoLocals
  /\ UNCHANGED <<args, open_prs, refs, successfully_merged, moved_to_conflicts, calls,
                 detections, summaries>>

RerunNext == Next \/ RunAgain

RerunSpec == Init /\ [][RerunNext]_vars

\* ------------------------------------- PRs opened between two runs of run()

\* Between two runs a user opens a PR from a branch the hosting service
\* holds into another one; the listing returns it first (newest first) or
\* last.
OpenPR ==
  /\ pc = "exited"
  /\ calls # <<>>
  /\ RunNumber < MaxRuns
  /\ Len(open_prs) < MaxPRs
  /\ \E p \in PullRequests :
       /\ \A i \in 1..Len(open_prs) : open_prs[i].number # p.number
       /\ \A k \in 1..Len(calls) : calls[k].num # p.number
       /\ refs[p.head] # Absent /\ refs[p.base] # Absent
       /\ open_prs' \in {<<p>> \o open_prs, Append(open_prs, p)}
  /\ UNCHANGED <<args, ended_runs, default_branch, pc, exit_code, refs, prs, idx,
                 successfully_merged, moved_to_conflicts, can_merge, source_sha,
                 conflicting_files, calls, detections, summaries>>

RepeatNext == Next \/ RunAgain \/ OpenPR

RepeatSpec == Init /\ [][RepeatNext]_vars

\* ------------------------------ two runs that differ in the default branch

\* The second run is given, call for call, the answers the first run was
\* given, and its detector the tool behaviour the first run's detector met;
\* a call the first run did not make may be answered in any way.
Replays ==
  ended_runs # <<>> =>
    LET off  == ended_runs[1].calls
        doff == ended_runs[1].detections
    IN  /\ \A k \in (off + 1)..Len(calls) :
             k - off <= off => calls[k].res = calls[k - off].res
        /\ \A k \in (doff + 1)..Len(detections) :
             k - doff <= doff => detections[k].tool = detections[k - doff].tool

\* A second process is started with the same arguments against the same
\* hosting service as the first process found it: the same open PRs and
\* refs. Only the default branch the repository reports is another one
\* (RepoDefaultBranch).
StartTwin ==
  /\ pc = "exited"
  /\ calls # <<>>
  /\ ended_runs = <<>>
  /\ ended_runs' = <<EndedRun>>
  /\ pc' = "main"
  /\ exit_code' = -1
  /\ open_prs' = IF prs # <<>> THEN prs ELSE open_prs
  /\ refs' = InitialRefs(open_prs')
  /\ prs' = <<>>
  /\ idx' = 0
  /\ default_branch' = None
  /\ successfully_merged' = <<>>
  /\ moved_to_conflicts' = <<>>
  /\ NoLocals
  /\ UNCHANGED <<args, calls, detections, summaries>>

\* The steps of Next, each answered as Replays allows.
TwinNext ==
  \/ StartTwin
  \/ Main /\ Replays'
  \/ GetOpenPRs /\ Replays'
  \/ GetDefaultBranch /\ Replays'
  \/ CheckMergeStatus /\ Replays'
  \/ MergePR /\ Replays'
  \/ DeleteBranch /\ Replays'
  \/ GetSha /\ Replays'
  \/ CreateRef /\ Replays'
  \/ DetectConflicts /\ Replays'
  \/ CommentOnPR /\ Replays'
  \/ PrintSummary /\ Replays'

TwinSpec == Init /\ [][TwinNext]_vars

\* ------------------------------------------- the Conflict Detector on its own

\* The branch names get_conflicting_files is called with: names of the
\* pattern, and names with a character outside it (none at all, a space, a
\* shell metacharacter, a newline at the end, two newlines at the end).
DetectorBranchNames ==
  {"main", "feature", "conflicts/feature", "", "feat ure", "feature;x",
   "feature\n", "feature\n\n"}

\* The tool behaviours the detector is checked against: those of ToolRuns,
\* git that cannot be launched, a merge-base that prints nothing, a
\* merge-tree whose output cannot be decoded (subprocess.run raises), a
\* merge-tree that exits non-zero after printing, output that is no
\* merge-tree output, the output of git itself (the path on the lines after
\* 'changed in both'), and an empty output.
DetectorToolRuns ==
  ToolRuns \cup
  { ToolRun(TRUE, 0, "", FALSE, 0, <<>>),
    ToolRun(FALSE, 0, "\n", FALSE, 128, <<>>),
    ToolRun(FALSE, 0, "abc123\n", TRUE, 0, <<>>),
    ToolRun(FALSE, 0, "abc123\n", FALSE, 1, <<"changed in both src/a.py", "">>),
    ToolRun(FALSE, 0, "abc123\n", FALSE, 0, <<"usage: git merge-tree", "">>),
    ToolRun(FALSE, 0, "abc123\n", FALSE, 0,
            <<"changed in both", "  base   100644 1a2b src/a.py", "">>),
    ToolRun(FALSE, 0, "abc123\n", FALSE, 0, <<>>) }

\* A manager that has recorded nothing, about to call
\* get_conflicting_files(base, head): the two names are carried by the one
\* PR of prs.
DetectorInit ==
  /\ args = [repo |-> "sburdges-eng/penta-core", token |-> "ghp_token"]
  /\ ended_runs = <<>>
  /\ default_branch = None
  /\ pc = "get_conflicting_files"
  /\ exit_code = -1
  /\ \E head_branch, base_branch \in DetectorBranchNames :
       prs = <<[number |-> 1, title |-> "Fix", head |-> head_branch, base |-> base_branch]>>
  /\ open_prs = prs
  /\ refs = [r \in AllRefs |-> InitialSha(r)]
  /\ idx = 1
  /\ successfully_merged = <<>>
  /\ moved_to_conflicts = <<>>
  /\ can_merge = "false"
  /\ source_sha = None
  /\ conflicting_files = <<>>
  /\ calls = <<>>
  /\ detections = <<>>
  /\ summaries = <<>>

DetectorCall == Detect(DetectorToolRuns)

DetectorNext == DetectorCall

DetectorSpec == DetectorInit /\ [][DetectorNext]_vars

\* ------------------------------------------------------------- the claims

Positions == 1..Len(prs)

\* The calls of the history made for the PR at position i with operation op.
CallsOf(i, op) == {k \in 1..Len(calls) : calls[k].pos = i /\ calls[k].op = op}

\* A call op made for the PR at position i ended with res.
Answered(i, op, res) == \E k \in CallsOf(i, op) : calls[k].res = res

\* process_pr has returned for the PR at position i.
Processed(i) == i \in Positions /\ idx > i

\* How many entries of a record list carry PR number n.
CountIn(list, n) == Cardinality({k \in 1..Len(list) : list[k].pr_number = n})

C2_ConflictHandledOnce ==
  \A i \in Positions :
    (Answered(i, "get_pr", "false") \/ Answered(i, "get_pr", "null"))
    => /\ Cardinality(CallsOf(i, "get_ref")) <= 1
       /\ Cardinality(CallsOf(i, "create_ref")) <= 1
       /\ \A k \in CallsOf(i, "get_ref") : calls[k].arg = <<prs[i].head>>
       /\ \A k \in CallsOf(i, "create_ref") :
            calls[k].arg[1] = "refs/heads/conflicts/" \o prs[i].head
       /\ Processed(i) =>
            /\ Cardinality(CallsOf(i, "get_ref")) = 1
            /\ Answered(i, "get_ref", "ok") => Cardinality(CallsOf(i, "create_ref")) = 1
            /\ CountIn(moved_to_conflicts, prs[i].number) = 1
            /\ CountIn(successfully_merged, prs[i].number) = 0

\* A PR whose mergeability is not computed yet has been processed, and its
\* conflicts branch was created.
C2_Witness ==
  \E i \in Positions :
    /\ Answered(i, "get_pr", "null") /\ Processed(i)
    /\ Answered(i, "create_ref", "ok")
    /\ CountIn(moved_to_conflicts, prs[i].number) = 1

\* C3: in every state no PR number is in both successfully_merged and
\* moved_to_conflicts.
C3_AtMostOneList ==
  \A n \in PRNumbers :
    ~(CountIn(successfully_merged, n) > 0 /\ CountIn(moved_to_conflicts, n) > 0)

\* Both lists hold a record, one of them of a PR whose merge call was issued
\* and refused, the other of a PR whose branch deletion was refused.
C3_Witness ==
  /\ successfully_merged # <<>> /\ moved_to_conflicts # <<>>
  /\ \E i, j \in Positions :
       /\ Answered(i, "merge", "http_error") /\ Processed(i)
       /\ Answered(j, "delete_ref", "http_error") /\ Processed(j)

\* C4: a non-2xx answer to a call made while handling one PR (mergeability
\* read, merge, branch delete, head-sha read, ref creation, comment) aborts at
\* most that PR's handling: a run whose listing and default-branch calls
\* succeeded and that met no other kind of error ends with every listed PR
\* processed, the summary printed and status 0.
C4_ApiFailureAbortsOnlyItsPR ==
  ( /\ pc = "exited" /\ prs # <<>>
    /\ Answered(0, "get_repo", "ok")
    /\ \A k \in 1..Len(calls) : calls[k].res # "other_error" )
  => /\ exit_code = 0
     /\ Len(summaries) = 1
     /\ \A i \in Positions : Processed(i)

\* C5: a PR reported mergeable whose merge call is refused goes through
\* conflict handling as a PR that is not mergeable does: no branch is deleted
\* and no merged record appended for it, the creation of its conflicts
\* branch is the next thing attempted, once processed it has exactly one
\* conflict record, and the run goes on with the next PR (or the summary).
C5_MergeFailureHandledAsConflict ==
  \A i \in Positions :
    Answered(i, "merge", "http_error")
    => /\ CountIn(successfully_merged, prs[i].number) = 0
       /\ CallsOf(i, "delete_ref") = {}
       /\ (idx = i /\ pc = "get_sha") \/ Cardinality(CallsOf(i, "get_ref")) = 1
       /\ \A k \in CallsOf(i, "get_ref") :
            /\ calls[k].arg = <<prs[i].head>>
            /\ \E m \in CallsOf(i, "merge") : k = m + 1
       /\ Processed(i) =>
            /\ CountIn(moved_to_conflicts, prs[i].number) = 1
            /\ IF i < Len(prs)
               THEN (idx = i + 1 /\ pc = "check_merge_status") \/ CallsOf(i + 1, "get_pr") # {}
               ELSE pc = "print_summary" \/ (pc = "exited" /\ exit_code = 0 /\ Len(summaries) = 1)

\* A PR whose merge was refused has been processed and recorded as a
\* conflict, and the PR after it has been processed too.
C5_Witness ==
  /\ Len(prs) = 2 /\ Processed(2)
  /\ Answered(1, "get_pr", "true") /\ Answered(1, "merge", "http_error")
  /\ CountIn(moved_to_conflicts, prs[1].number) = 1

\* C6: when the creation of the conflicts branch fails (the head-sha read or
\* the create-ref call is refused), the PR has exactly one conflict record,
\* with conflicts_branch None and the note, the Conflict Detector is not
\* run for it and no comment is posted on it.
C6_BranchCreationFailureRecorded ==
  \A i \in Positions :
    (Answered(i, "get_ref", "http_error") \/ Answered(i, "create_ref", "http_error"))
    => /\ CountIn(moved_to_conflicts, prs[i].number) = 1
       /\ \A k \in 1..Len(moved_to_conflicts) :
            moved_to_conflicts[k].pr_number = prs[i].number
            => /\ moved_to_conflicts[k].conflicts_branch = None
               /\ "note" \in DOMAIN moved_to_conflicts[k]
               /\ moved_to_conflicts[k].note = "Failed to create conflicts branch"
               /\ "conflicting_files" \notin DOMAIN moved_to_conflicts[k]
       /\ \A k \in 1..Len(detections) : detections[k].pos # i
       /\ CallsOf(i, "git_merge_base") = {} /\ CallsOf(i, "git_merge_tree") = {}
       /\ CallsOf(i, "comment") = {}

\* The create-ref call of a PR was refused because the hosting service
\* already has the ref, and the PR has been processed.
C6_Witness ==
  \E i \in Positions :
    /\ Answered(i, "get_ref", "ok") /\ Answered(i, "create_ref", "http_error")
    /\ refs[ConflictsBranchName(prs[i].head)] # Absent
    /\ Processed(i)

\* C7: when the listing call returns no open PR, the listing call is the only
\* call of the run, both record lists are empty, no summary is printed, and
\* the run has ended (with status 0).
C7_NoOpenPRsNoWork ==
  (Answered(0, "list_prs", "ok") /\ prs = <<>>)
  => /\ Len(calls) = 1
     /\ successfully_merged = <<>> /\ moved_to_conflicts = <<>>
     /\ summaries = <<>>
     /\ pc = "exited" /\ exit_code = 0

\* The listing call has returned an empty list.
C7_Witness ==
  /\ calls = <<Call("list_prs", 0, 0, <<>>, "ok")>>
  /\ prs = <<>> /\ pc = "exited"

\* A call that ended in an exception no handler of the PR's processing
\* catches: any exception other than HTTPError, or an HTTPError of
\* check_merge_status.
Uncaught(c) ==
  c.res = "other_error" \/ (c.op = "get_pr" /\ c.res = "http_error")

\* C8: when the processing of the PR at position i raises an error the
\* per-PR logic does not catch, the run ends there: that call is the last
\* call made (none is made for a later PR), no summary is printed, and the
\* process exits with status 1.
C8_UncaughtErrorAbortsRun ==
  \A i \in Positions :
    \A k \in 1..Len(calls) :
      (calls[k].pos = i /\ Uncaught(calls[k]))
      => /\ k = Len(calls)
         /\ pc = "exited" /\ exit_code = 1
         /\ idx = i
         /\ summaries = <<>>

\* The processing of the first of two PRs raised.
C8_Witness ==
  /\ Len(prs) = 2 /\ calls # <<>>
  /\ calls[Len(calls)].pos = 1 /\ Uncaught(calls[Len(calls)])
  /\ pc = "exited"

\* The position in the listing of the PR numbered n.
PositionOf(n) == CHOOSE i \in Positions : prs[i].number = n

InListingOrder(list) ==
  \A j, k \in 1..Len(list) :
    j < k => PositionOf(list[j].pr_number) < PositionOf(list[k].pr_number)

\* C9: PRs are processed one at a time in listing order: in the history no
\* call made for a PR comes after a call made for a PR later in the listing
\* (run()'s own calls come first), and each record list is in listing order.
C9_ListingOrder ==
  /\ \A j, k \in 1..Len(calls) : j < k => calls[j].pos <= calls[k].pos
  /\ \A k \in 1..Len(calls) : calls[k].pos > 0 => calls[k].pos <= idx
  /\ InListingOrder(successfully_merged)
  /\ InListingOrder(moved_to_conflicts)

\* Two PRs listed with the higher number first have both been merged.
C9_Witness ==
  /\ Len(prs) = 2 /\ prs[1].number > prs[2].number
  /\ Len(successfully_merged) = 2
  /\ pc = "exited"

\* The call on a ref the process is about to make, if any.
NextRefCall ==
  CASE pc = "delete_branch" -> <<"delete_ref", pr.head>>
    [] pc = "get_sha" -> <<"get_ref", pr.head>>
    [] pc = "create_ref" -> <<"create_ref", ConflictsBranchName(pr.head)>>
    [] OTHER -> <<>>

\* C10: each PR is processed independently of the PRs before it: whenever a
\* call on a ref is about to be made for a PR (the deletion of its head, the
\* read of its head's sha, the creation of conflicts/<head>), the answers the
\* hosting service can give are those it could give when the run began, so
\* the terminal states the PR can reach and the records it can get are the
\* same as if no PR had been processed before it.
C10_IndependentOfEarlierPRs ==
  NextRefCall # <<>>
  => RefCallOutcomes(NextRefCall[1], NextRefCall[2])
       = RefOutcomes(InitialRefs(prs), NextRefCall[1], NextRefCall[2])

\* run() goes on after the PR at position i: the next PR is taken, or after
\* the last one the summary is printed and the process ends with status 0.
RunGoesOnAfter(i) ==
  /\ Processed(i)
  /\ IF i < Len(prs)
     THEN (idx = i + 1 /\ pc = "check_merge_status") \/ CallsOf(i + 1, "get_pr") # {}
     ELSE pc = "print_summary" \/ (pc = "exited" /\ exit_code = 0 /\ Len(summaries) = 1)

\* C11: a mergeability report of null (not computed yet) is handled as a
\* report of false: process_pr takes the same branch for both, issues no
\* merge call and no branch-delete call for the PR, and enters conflict
\* handling exactly once, directly after the report (its first call, the read
\* of the head's sha, is made once and follows the mergeability read).
C11_UnknownHandledAsFalse ==
  /\ AfterCheck("null") = AfterCheck("false")
  /\ \A i \in Positions :
       (Answered(i, "get_pr", "false") \/ Answered(i, "get_pr", "null"))
       => /\ CallsOf(i, "merge") = {}
          /\ CallsOf(i, "delete_ref") = {}
          /\ \/ idx = i /\ pc = "get_sha" /\ CallsOf(i, "get_ref") = {}
             \/ Cardinality(CallsOf(i, "get_ref")) = 1
          /\ \A k \in CallsOf(i, "get_ref") : \E m \in CallsOf(i, "get_pr") : k = m + 1

\* A PR reported null and a PR reported false have both been processed, each
\* with its conflict record.
C11_Witness ==
  /\ Len(prs) = 2 /\ Processed(2)
  /\ Answered(1, "get_pr", "null") /\ Answered(2, "get_pr", "false")
  /\ Len(moved_to_conflicts) = 2

MergeTreeHeaders ==
  {"changed in both", "added in both", "added in local", "added in remote",
   "removed in both", "removed in local", "removed in remote"}

\* Output that is no merge-tree output: not empty, and no line of it begins
\* a record.
Unparsable(lines) ==
  /\ lines # <<>>
  /\ \A j \in 1..Len(lines) : \A h \in MergeTreeHeaders : ~StartsWith(lines[j], h)

\* In the detection d an invocation of the local tool went wrong: it could
\* not be launched or its output not decoded (subprocess.run raised), it
\* exited non-zero, or merge-tree exited with 0 and printed something that is
\* no merge-tree output.
ToolErrored(d) ==
  \/ \E j \in 1..Len(d.invoked) : d.invoked[j].res \in {"raised", "nonzero"}
  \/ /\ Len(d.invoked) = 2
     /\ d.invoked[2].res = "zero"
     /\ Unparsable(d.tool.mt_out)

\* C13: fail-open detection: whenever an invocation of the local tool made
\* by get_conflicting_files errors (cannot be launched, exits non-zero, or
\* prints what cannot be parsed), get_conflicting_files returns the empty
\* list and no exception leaves it.
C13_DetectorFailsOpen ==
  \A k \in 1..Len(detections) :
    ToolErrored(detections[k])
    => detections[k].files = <<>> /\ ~detections[k].escaped

\* subprocess.run raised on the merge-tree invocation, after a merge-base
\* that succeeded, and the detector has returned.
C13_Witness ==
  /\ pc = "comment_on_pr" /\ Len(detections) = 1
  /\ Len(detections[1].invoked) = 2
  /\ detections[1].invoked[2].res = "raised"
  /\ conflicting_files = <<>>

HasCharOutsidePattern(name) == \E c \in Chars(name) : c \notin AllowedChars

\* C14: for a head or base branch name with at least one character outside
\* [A-Za-z0-9/_.-], wherever it stands (a newline at the end included),
\* get_conflicting_files returns the empty list and invokes the local tool
\* not once.
C14_InvalidNameNeverReachesTool ==
  \A k \in 1..Len(detections) :
    (HasCharOutsidePattern(detections[k].head) \/ HasCharOutsidePattern(detections[k].base))
    => detections[k].files = <<>> /\ detections[k].invoked = <<>>

\* C15: the Conflict Detector is read-only: a call of get_conflicting_files
\* adds only invocations of the local tool to the history of calls (no call
\* of the hosting service), changes no ref and no open PR of the hosting
\* service, and changes neither record list.
C15_DetectorReadOnly ==
  [][ pc = "get_conflicting_files"
      => /\ refs' = refs /\ open_prs' = open_prs
         /\ successfully_merged' = successfully_merged
         /\ moved_to_conflicts' = moved_to_conflicts
         /\ Len(calls') >= Len(calls)
         /\ SubSeq(calls', 1, Len(calls)) = calls
         /\ \A k \in (Len(calls) + 1)..Len(calls') :
              calls'[k].op \in {"git_merge_base", "git_merge_tree"} ]_vars

\* The detector has returned two conflicting files after invoking the tool
\* twice, and every ref is what it was.
C15_Witness ==
  /\ pc = "comment_on_pr" /\ Len(detections) = 1
  /\ Len(detections[1].files) = 2
  /\ Len(calls) = 2
  /\ refs = [r \in AllRefs |-> InitialSha(r)]

\* The conflict records of the PR at position i.
ConflictRecordsOf(i) ==
  {k \in 1..Len(moved_to_conflicts) : moved_to_conflicts[k].pr_number = prs[i].number}

\* C16: the name of the conflicts branch is a function of the source branch
\* name alone: every create-ref call made for a source branch addresses
\* refs/heads/conflicts/<source branch>, two calls made for the same source
\* branch address the same ref, and a name create_conflicts_branch returned
\* (kept in the conflict record) is "conflicts/" + the source branch.
C16_NamingIdempotent ==
  /\ \A k \in 1..Len(calls) :
       calls[k].op = "create_ref"
       => calls[k].arg[1] = "refs/heads/conflicts/" \o prs[calls[k].pos].head
  /\ \A j, k \in 1..Len(calls) :
       ( /\ calls[j].op = "create_ref" /\ calls[k].op = "create_ref"
         /\ prs[calls[j].pos].head = prs[calls[k].pos].head )
       => calls[j].arg[1] = calls[k].arg[1]
  /\ \A k \in 1..Len(moved_to_conflicts) :
       moved_to_conflicts[k].conflicts_branch
         \in {None, "conflicts/" \o moved_to_conflicts[k].branch}

\* create_conflicts_branch has been called for two PRs with the same head
\* branch, and both calls reached the create-ref call.
C16_Witness ==
  /\ Len(prs) = 2 /\ prs[1].head = prs[2].head
  /\ CallsOf(1, "create_ref") # {} /\ CallsOf(2, "create_ref") # {}

PerPRCalls == {"get_pr", "merge", "delete_ref", "get_ref", "create_ref", "comment"}

\* C18: no call of the hosting service is retried: for each PR the history
\* holds at most one mergeability read, one merge call, one branch-delete
\* call, one head-sha read, one create-ref call and one comment post,
\* however those calls ended.
C18_NoRetry ==
  \A i \in Positions : \A op \in PerPRCalls : Cardinality(CallsOf(i, op)) <= 1

\* A PR has been processed with a refused merge, a refused comment and five
\* calls in all.
C18_Witness ==
  \E i \in Positions :
    /\ Processed(i)
    /\ Answered(i, "merge", "http_error") /\ Answered(i, "comment", "http_error")
    /\ \A op \in PerPRCalls \ {"delete_ref"} : Cardinality(CallsOf(i, op)) = 1

\* The calls of merge_pr, delete_branch, create_conflicts_branch and
\* comment_on_pr.
GuardedCalls == {"merge", "delete_ref", "get_ref", "create_ref", "comment"}

\* C19: however the underlying call of merge_pr, delete_branch,
\* create_conflicts_branch or comment_on_pr fails (a non-2xx answer or any
\* other failure), the operation returns False (None for
\* create_conflicts_branch) to its caller and does not raise: the run is
\* never ended, with status 1, by such a call.
C19_OperationsNeverRaise ==
  \A k \in 1..Len(calls) :
    (calls[k].op \in GuardedCalls /\ calls[k].res # "ok")
    => ~(k = Len(calls) /\ pc = "exited" /\ exit_code = 1)

\* run() returned: the summary was printed, or the listing was empty.
RunCompleted ==
  summaries # <<>> \/ (Answered(0, "list_prs", "ok") /\ prs = <<>>)

\* An exception left run(): the last call made raised and nothing caught it.
RunRaised ==
  /\ calls # <<>>
  /\ LET c == calls[Len(calls)]
     IN  \/ Uncaught(c)
         \/ c.op \in {"list_prs", "get_repo"} /\ c.res = "http_error"

C21_SummaryFreshEachRun ==
  /\ pc = "get_open_prs"
       => successfully_merged = <<>> /\ moved_to_conflicts = <<>>
  /\ (pc = "exited" /\ RunNumber > 1 /\ summaries # <<>> /\ prs # <<>> /\ idx > Len(prs))
       => Len(summaries[Len(summaries)].merged) + Len(summaries[Len(summaries)].conflicts)
            <= Len(prs)

\* The list `new` is the list `old`, or `old` with one entry added at its end.
SameOrOneAppended(old, new) ==
  \/ new = old
  \/ Len(new) = Len(old) + 1 /\ SubSeq(new, 1, Len(old)) = old

\* C22: both record lists are append-only: every step leaves each list as
\* it is or adds one entry at its end (no entry is removed, moved or
\* changed), no step adds to both, and the processing of one PR adds at most
\* one entry in all.
C22_AppendOnly ==
  /\ [](\A i \in Positions :
          CountIn(successfully_merged, prs[i].number)
            + CountIn(moved_to_conflicts, prs[i].number) <= 1)
  /\ [][ /\ SameOrOneAppended(successfully_merged, successfully_merged')
         /\ SameOrOneAppended(moved_to_conflicts, moved_to_conflicts')
         /\ Len(successfully_merged') + Len(moved_to_conflicts')
              <= Len(successfully_merged) + Len(moved_to_conflicts) + 1 ]_vars

\* A second conflict record has been appended after the first, and the run
\* has ended.
C22_Witness ==
  /\ Len(moved_to_conflicts) = 2
  /\ pc = "exited" /\ exit_code = 0

\* The detections made for the PR at position i.
DetectionsOf(i) == {k \in 1..Len(detections) : detections[k].pos = i}

BulletLines(body) == SelectSeq(body, LAMBDA l : StartsWith(l, "- "))

HasLine(body, line) == \E j \in 1..Len(body) : body[j] = line

\* C24: the comment posted on a conflicted PR always names the base branch
\* and the conflicts branch created; when files were detected it states the
\* conflict with the base, and lists them under a heading, one bullet per
\* file in inline code, in detection order; when none was detected it has the
\* generic cannot-be-automatically-merged statement and no list.
C24_CommentNamesBranchesAndFiles ==
  \A k \in 1..Len(calls) :
    calls[k].op = "comment"
    => LET body == calls[k].arg
           p == prs[calls[k].pos]
           files == detections[CHOOSE d \in DetectionsOf(calls[k].pos) : TRUE].files
           specific == "This PR has merge conflicts with " \o Tick \o p.base \o Tick \o "."
           generic == "This PR cannot be automatically merged into "
                        \o Tick \o p.base \o Tick \o "."
       IN  /\ HasLine(body, "A conflicts branch has been created: "
                              \o Tick \o "conflicts/" \o p.head \o Tick)
           /\ BulletLines(body) = [j \in 1..Len(files) |-> "- " \o Tick \o files[j] \o Tick]
           /\ IF files # <<>>
              THEN /\ HasLine(body, specific) /\ ~HasLine(body, generic)
                   /\ HasLine(body, "**Conflicting files:**")
              ELSE /\ HasLine(body, generic) /\ ~HasLine(body, specific)
                   /\ ~HasLine(body, "**Conflicting files:**")

\* A comment listing the two detected files, in detection order, has been
\* posted.
C24_Witness ==
  \E k \in 1..Len(calls) :
    /\ calls[k].op = "comment" /\ calls[k].res = "ok"
    /\ BulletLines(calls[k].arg) = <<"- " \o Tick \o "src/a.py" \o Tick,
                                      "- " \o Tick \o "src/b.py" \o Tick>>

\* The terminal states of the PR at position i: Merged (a merged record),
\* ConflictIsolated (a conflict record naming its conflicts branch) and
\* Failed (a conflict record with no conflicts branch).
TerminalStates(i) ==
  {"Merged" : k \in {k \in 1..Len(successfully_merged) :
                      successfully_merged[k].pr_number = prs[i].number}}
  \cup {IF moved_to_conflicts[k].conflicts_branch = None THEN "Failed" ELSE "ConflictIsolated" :
          k \in ConflictRecordsOf(i)}

RecordsOf(i) ==
  CountIn(successfully_merged, prs[i].number) + CountIn(moved_to_conflicts, prs[i].number)

\* The processing of the PR at position i has begun and none of its calls
\* ended in an unexpected error (an error other than a non-2xx answer of the
\* hosting service).
NoUnexpectedError(i) ==
  /\ \E k \in 1..Len(calls) : calls[k].pos = i
  /\ \A k \in 1..Len(calls) : calls[k].pos = i => calls[k].res # "other_error"

\* C25: every PR whose processing raised no unexpected error is, when the
\* run has left it, in exactly one of the terminal states Merged,
\* ConflictIsolated and Failed, by exactly one record; and the run always
\* ends: either run() returned with every listed PR processed exactly once
\* (status 0), or an unhandled error ended it (status 1), or main() refused
\* its arguments.
C25_TerminalStateAndTermination ==
  /\ [](\A i \in Positions :
          NoUnexpectedError(i) /\ (idx > i \/ pc = "exited")
            => Cardinality(TerminalStates(i)) = 1 /\ RecordsOf(i) = 1)
  /\ [](pc = "exited"
          => \/ /\ exit_code = 0
                /\ \A i \in Positions :
                     Processed(i) /\ Cardinality(CallsOf(i, "get_pr")) = 1
             \/ exit_code = 1 /\ RunRaised
             \/ exit_code \in {1, 2} /\ calls = <<>>)
  /\ <>(pc = "exited")

\* C26 as stated: the default-branch fetch comes before the open-PR listing
\* call, and the listing call before every per-PR call.
C26_DefaultBranchBeforeListing ==
  \A k \in 1..Len(calls) :
    /\ calls[k].op = "list_prs" => \E j \in 1..(k - 1) : calls[j].op = "get_repo"
    /\ calls[k].op \in PerPRCalls => \E j \in 1..(k - 1) : calls[j].op = "list_prs"

\* C26, amended: the open-PR listing call is the first call of the run and
\* is made once; the default-branch fetch is the second call, made once and
\* only after a listing that succeeded and is not empty; every per-PR call
\* comes after both, and once the loop over the PRs has begun both have been
\* made.
C26_ListingBeforeDefaultBranch ==
  /\ \A k \in 1..Len(calls) :
       /\ calls[k].op = "list_prs" <=> k = 1
       /\ calls[k].op = "get_repo"
            => k = 2 /\ calls[1].res = "ok" /\ prs # <<>>
       /\ calls[k].op \in PerPRCalls
            => k > 2 /\ calls[2].op = "get_repo" /\ calls[2].res = "ok"
  /\ idx >= 1 => Len(calls) >= 2 /\ calls[1].op = "list_prs" /\ calls[2].op = "get_repo"

\* The listing, then the default-branch fetch, then the first per-PR call
\* have been made.
C26_Witness ==
  /\ Len(calls) >= 3
  /\ calls[1].op = "list_prs" /\ calls[2].op = "get_repo" /\ calls[3].op = "get_pr"

\* C27: of two runs that differ only in the default branch the repository
\* reports, the second makes, call for call, the calls the first made (same
\* operation, PR, arguments and answer), it ends after as many calls, and
\* its successfully_merged and moved_to_conflicts are equal, record for
\* record, to those the first run ended with.
C27_DefaultBranchInformational ==
  ended_runs # <<>> =>
    LET off == ended_runs[1].calls
    IN  /\ Len(calls) <= 2 * off
        /\ \A k \in (off + 1)..Len(calls) : calls[k] = calls[k - off]
        /\ pc = "exited"
             => /\ Len(calls) = 2 * off
                /\ successfully_merged = ended_runs[1].merged
                /\ moved_to_conflicts = ended_runs[1].conflicts

\* Two runs have ended, the first told "main" and the second "develop" as
\* the default branch, each with a merged record and a conflict record.
C27_Witness ==
  /\ pc = "exited" /\ exit_code = 0
  /\ Len(ended_runs) = 1
  /\ ended_runs[1].default_branch = "main" /\ default_branch = "develop"
  /\ successfully_merged # <<>> /\ moved_to_conflicts # <<>>

\* A line is among the lines printed.
Printed(lines, line) == \E j \in 1..Len(lines) : lines[j] = line

\* The printed lines that open an item ("  - PR #...").
ItemHeads(lines) == {j \in 1..Len(lines) : StartsWith(lines[j], "  - PR #")}

\* C28: the summary is printed at most once, and once when a run over at
\* least one PR has completed; it is printed after process_pr has returned
\* for the last PR; it has one item for every merged record and every
\* conflict record, with the record's number, title and branch, and the
\* note, conflicts branch and conflicting files the record has (a record
\* may have none of them); and the two lists are, after the summary, what
\* they were when it was printed.
C28_SummaryOnceAndComplete ==
  /\ Len(summaries) <= 1
  /\ pc = "exited" /\ exit_code = 0 /\ prs # <<>> => Len(summaries) = 1
  /\ summaries # <<>> =>
       LET s == summaries[1]
           head(item) == "  - PR #" \o ToString(item.pr_number) \o ": " \o item.title
       IN  /\ prs # <<>> /\ \A i \in Positions : Processed(i)
           /\ calls[Len(calls)].pos = Len(prs)
           /\ s.merged = successfully_merged
           /\ s.conflicts = moved_to_conflicts
           /\ Cardinality(ItemHeads(s.lines))
                = Len(successfully_merged) + Len(moved_to_conflicts)
           /\ \A k \in 1..Len(successfully_merged) :
                LET item == successfully_merged[k]
                IN  /\ Printed(s.lines, head(item))
                    /\ IF "note" \in DOMAIN item
                       THEN Printed(s.lines, "    Branch: " \o item.branch
                                             \o " (" \o item.note \o ")")
                       ELSE Printed(s.lines, "    Branch: " \o item.branch)
           /\ \A k \in 1..Len(moved_to_conflicts) :
                LET item == moved_to_conflicts[k]
                IN  /\ Printed(s.lines, head(item))
                    /\ Printed(s.lines, "    Original branch: " \o item.branch)
                    /\ item.conflicts_branch # None
                         => Printed(s.lines, "    Conflicts branch: " \o item.conflicts_branch)
                    /\ "conflicting_files" \in DOMAIN item /\ item.conflicting_files # <<>>
                         => Printed(s.lines, "    Conflicting files: "
                                             \o JoinComma(item.conflicting_files))
                    /\ "note" \in DOMAIN item
                         => Printed(s.lines, "    Note: " \o item.note)

\* A summary has been printed for a merged record without a note and a
\* conflict record that has neither a conflicts branch nor conflicting files.
C28_Witness ==
  /\ Len(summaries) = 1
  /\ \E k \in 1..Len(successfully_merged) : "note" \notin DOMAIN successfully_merged[k]
  /\ \E k \in 1..Len(moved_to_conflicts) :
       /\ moved_to_conflicts[k].conflicts_branch = None
       /\ "conflicting_files" \notin DOMAIN moved_to_conflicts[k]

\* A line of merge-tree output that says a path changed on both sides.
ChangedInBoth(line) == StartsWith(line, "changed in both")

\* C29: when merge-tree has run and exited with 0, the detector's result
\* has one entry for every output line that says a path changed on both
\* sides, in output order, each entry a token of its line; no other line
\* adds an entry.
C29_EveryChangedLineContributes ==
  \A k \in 1..Len(detections) :
    LET d      == detections[k]
        marked == SelectSeq(d.tool.mt_out, ChangedInBoth)
    IN  Len(d.invoked) = 2 /\ d.invoked[2].res = "zero"
        => /\ Len(d.files) = Len(marked)
           /\ \A n \in 1..Len(d.files) :
                \E t \in 4..Len(Split(marked[n])) : d.files[n] = Split(marked[n])[t]

\* C30: whenever a step of the detection fails (merge-base or merge-tree
\* exits non-zero or cannot be run, or merge-tree prints what is no
\* merge-tree output), the result is the empty list and a warning has been
\* printed.
C30_FailureWarns ==
  \A k \in 1..Len(detections) :
    ToolErrored(detections[k])
    => detections[k].files = <<>> /\ detections[k].warnings # <<>>

\* C31: the detector validates, then runs merge-base, then merge-tree. The
\* tool is invoked at most twice; the first invocation is merge-base on
\* origin/<base> and origin/<head>, made only for two names that pass the
\* validation; merge-tree is the second invocation, made only after
\* merge-base exited with 0, on the output of merge-base (stripped) as the
\* ancestor and origin/<base>, origin/<head>; when merge-base exits non-zero
\* or cannot be run, merge-tree is not invoked.
C31_StepsInOrder ==
  \A k \in 1..Len(detections) :
    LET d == detections[k]
        n == Len(d.invoked)
    IN  /\ n <= 2
        /\ n >= 1 =>
             /\ d.invoked[1].op = "git_merge_base"
             /\ d.invoked[1].arg = <<"origin/" \o d.base, "origin/" \o d.head>>
             /\ BranchPatternMatch(d.base) /\ BranchPatternMatch(d.head)
        /\ n = 2 =>
             /\ d.invoked[1].res = "zero"
             /\ d.invoked[2].op = "git_merge_tree"
             /\ d.invoked[2].arg
                  = <<Strip(d.tool.mb_out), "origin/" \o d.base, "origin/" \o d.head>>
        /\ (n >= 1 /\ d.invoked[1].res # "zero") => n = 1
        /\ (n >= 1 /\ d.invoked[1].res = "zero") => n = 2
        /\ (d.tool.mb_raises \/ d.tool.mb_rc # 0)
             => \A j \in 1..n : d.invoked[j].op # "git_merge_tree"

\* merge-base has printed "abc123\n" and exited with 0, and merge-tree has
\* been invoked on the ancestor abc123.
C31_Witness ==
  /\ pc = "comment_on_pr" /\ Len(detections) = 1
  /\ detections[1].tool.mb_out = "abc123\n"
  /\ Len(detections[1].invoked) = 2
  /\ detections[1].invoked[1].res = "zero"
  /\ detections[1].invoked[2].arg[1] = "abc123"

\* C32: a branch-delete call is made only for the head branch of a PR
\* reported mergeable whose merge call, the call just before it, succeeded;
\* and no branch-delete call names a conflicts/ branch.
C32_DeleteOnlyMergedHead ==
  \A k \in 1..Len(calls) :
    calls[k].op = "delete_ref"
    => /\ k > 1
       /\ calls[k - 1].op = "merge" /\ calls[k - 1].res = "ok"
       /\ calls[k - 1].pos = calls[k].pos
       /\ Answered(calls[k].pos, "get_pr", "true")
       /\ calls[k].arg = <<prs[calls[k].pos].head>>
       /\ ~StartsWith(calls[k].arg[1], "conflicts/")

\* C33: no branch-delete call names a branch that is the head or the base
\* of a PR later in the listing, which the run has not processed yet.
C33_DeleteSparesLaterPRs ==
  \A k \in 1..Len(calls) :
    calls[k].op = "delete_ref"
    => \A j \in Positions :
         j > calls[k].pos => calls[k].arg[1] \notin {prs[j].head, prs[j].base}

\* C34: in a run of a fresh manager the two lists hold, together, as many
\* records as PRs have been processed: idx - 1 while the PR at position idx
\* is being processed (and when an error ended the run there), none before
\* the loop, and as many as PRs were listed when the run has completed.
C34_RecordCountEqualsProcessed ==
  LET total == Len(successfully_merged) + Len(moved_to_conflicts)
  IN  /\ idx = 0 => total = 0
      /\ idx >= 1 => total = idx - 1
      /\ (pc = "exited" /\ exit_code = 0 /\ prs # <<>>) => total = Len(prs)

\* A run over two PRs has completed with one record in each list.
C34_Witness ==
  /\ pc = "exited" /\ exit_code = 0 /\ Len(prs) = 2 /\ idx = 3
  /\ Len(successfully_merged) = 1 /\ Len(moved_to_conflicts) = 1

\* C35: every record of successfully_merged is the record of a listed PR
\* (its number, title and head branch) for which this run made a merge call
\* that succeeded; a PR whose merge call was refused, or for which none was
\* made, has no merged record.
C35_MergedMeansMergeSucceeded ==
  /\ \A k \in 1..Len(successfully_merged) :
       \E c \in 1..Len(calls) :
         /\ calls[c].op = "merge" /\ calls[c].res = "ok"
         /\ calls[c].num = successfully_merged[k].pr_number
         /\ successfully_merged[k].title = prs[calls[c].pos].title
         /\ successfully_merged[k].branch = prs[calls[c].pos].head
  /\ \A i \in Positions :
       ~Answered(i, "merge", "ok") => CountIn(successfully_merged, prs[i].number) = 0

\* One PR is recorded as merged and another, whose merge call was refused,
\* has been processed.
C35_Witness ==
  /\ Len(successfully_merged) = 1
  /\ \E i \in Positions : Answered(i, "merge", "http_error") /\ Processed(i)

\* C36: the Conflict Detector is called at most once for a PR, and only
\* after the create-ref call of that PR succeeded: each of its tool
\* invocations comes after that call; it is never called for a PR whose
\* merge succeeded or that has a merged record; and a comment is posted on a
\* PR, at most once, only after the create-ref call of that PR succeeded.
C36_DetectAndCommentOnlyAfterBranch ==
  \A i \in Positions :
    /\ Cardinality(DetectionsOf(i)) <= 1
    /\ DetectionsOf(i) # {}
         => /\ Answered(i, "create_ref", "ok")
            /\ ~Answered(i, "merge", "ok")
            /\ CountIn(successfully_merged, prs[i].number) = 0
    /\ \A k \in CallsOf(i, "git_merge_base") \cup CallsOf(i, "git_merge_tree")
               \cup CallsOf(i, "comment") :
         \E c \in CallsOf(i, "create_ref") : c < k /\ calls[c].res = "ok"
    /\ Cardinality(CallsOf(i, "comment")) <= 1

\* In one run a PR was merged with no detection, the conflicts branch of
\* another could not be created, with no detection and no comment either.
C36_Witness ==
  /\ pc = "exited" /\ exit_code = 0 /\ Len(prs) = 2
  /\ \E i, j \in Positions :
       /\ Answered(i, "merge", "ok") /\ DetectionsOf(i) = {}
       /\ Answered(j, "create_ref", "http_error")
       /\ DetectionsOf(j) = {} /\ CallsOf(j, "comment") = {}

\* C37: every conflict record, in every state, has one of two shapes: with
\* conflicts_branch "conflicts/" + its branch, a conflicting_files list and
\* no note; or with conflicts_branch None, a note and no conflicting_files.
C37_ConflictRecordShape ==
  \A k \in 1..Len(moved_to_conflicts) :
    LET r == moved_to_conflicts[k]
    IN  /\ {"pr_number", "title", "branch", "conflicts_branch"} \subseteq DOMAIN r
        /\ r.conflicts_branch = None \/ r.conflicts_branch = "conflicts/" \o r.branch
        /\ "note" \in DOMAIN r <=> r.conflicts_branch = None
        /\ "conflicting_files" \in DOMAIN r <=> r.conflicts_branch # None

\* The list holds a record of each shape.
C37_Witness ==
  /\ Len(moved_to_conflicts) = 2
  /\ moved_to_conflicts[1].conflicts_branch # None
  /\ moved_to_conflicts[2].conflicts_branch = None

\* The PR listing call or the default-branch fetch of the run has failed.
RunLevelCallFailed ==
  \E k \in 1..Len(calls) : calls[k].op \in {"list_prs", "get_repo"} /\ calls[k].res # "ok"

\* C39: when the PR listing call or the default-branch fetch fails, the run
\* ends there: the failed call is the last call made, so that no
\* mergeability read, merge, branch-delete, create-ref or comment call and
\* no tool invocation is made; both lists are empty, no summary is printed
\* and the process has exited with status 1.
C39_RunLevelFailureTouchesNoPR ==
  RunLevelCallFailed
  => /\ calls[Len(calls)].op \in {"list_prs", "get_repo"}
     /\ calls[Len(calls)].res # "ok"
     /\ \A k \in 1..Len(calls) : calls[k].op \notin PerPRCalls /\ calls[k].pos = 0
     /\ successfully_merged = <<>> /\ moved_to_conflicts = <<>>
     /\ detections = <<>> /\ summaries = <<>>
     /\ idx = 0
     /\ pc = "exited" /\ exit_code = 1

\* The listing returned two PRs and the default-branch fetch was refused.
C39_Witness ==
  /\ Len(prs) = 2 /\ Len(calls) = 2
  /\ calls[2].op = "get_repo" /\ calls[2].res = "http_error"
  /\ pc = "exited"

\* The run, counted from 1, in which the call at position k of the history
\* was made.
RunOfCall(k) ==
  1 + Cardinality({r \in 1..Len(ended_runs) : ended_runs[r].calls < k})

\* C38: over repeated runs, the comment calls made for one PR are all made
\* in one run, and once a run has created conflicts/<head>, every later
\* create-ref call for that ref is refused, so that the later run posts no
\* comment on the PR and records it with conflicts_branch None.
C38_CommentInAtMostOneRun ==
  /\ \A j, k \in 1..Len(calls) :
       ( /\ calls[j].op = "comment" /\ calls[k].op = "comment"
         /\ calls[j].num = calls[k].num )
       => RunOfCall(j) = RunOfCall(k)
  /\ \A j, k \in 1..Len(calls) :
       ( /\ calls[j].op = "create_ref" /\ calls[j].res = "ok"
         /\ calls[k].op = "create_ref" /\ calls[k].arg = calls[j].arg
         /\ j < k )
       => calls[k].res # "ok"

====
